---- MODULE Spec2Model ----
(***************************************************************************)
(* Model of pyttman/core/communication/models/containers.py:               *)
(* MessageMixin (content normalisation, as_str, as_list, ...), its         *)
(* subclasses Message and Reply, and ReplyStream, a queue.Queue subclass   *)
(* whose get() is overridden.                                              *)
(*                                                                         *)
(* A Python str is modelled as a sequence of one-character strings, so     *)
(* that str.split(), str.splitlines(keepends=True) and str.join() are      *)
(* computed character by character, as CPython computes them.              *)
(***************************************************************************)
EXTENDS Integers, Sequences, FiniteSets, Bags, TLC

VARIABLES
    \* ---- MessageMixin behaviours (SpecMsg) ----
    raw,        \* the value last handed to a message constructor
    made,       \* outcome of that construction: a message or the exception
    ret,        \* outcome of the last method call on the constructed message
    \* ---- one thread using a ReplyStream (Spec) ----
    stream,     \* the ReplyStream object: its deque and unfinished_tasks
    initial,    \* the collection the stream was constructed from
    putLog,     \* history: payloads handed to put(), in call order
    getLog,     \* history: values returned by get(), in call order
    lastGet,    \* the last get() call: its arguments and its outcome
    \* ---- producer and consumer threads on one ReplyStream (SpecConc) ----
    cq,         \* the shared stream's deque
    cmutex,     \* holder of Queue.mutex, or NoThread
    ctasks,     \* Queue.unfinished_tasks
    pc,         \* per thread: where it is inside put() / get()
    sent,       \* per producer: number of payloads it has appended
    held,       \* per consumer: element popped, Reply not yet built
    recv,       \* per consumer: Replies returned by its get() calls, in order
    failed      \* per consumer: number of get() calls that raised

msgVars  == <<raw, made, ret>>
seqVars  == <<stream, initial, putLog, getLog, lastGet>>
concVars == <<cq, cmutex, ctasks, pc, sent, held, recv, failed>>
vars     == <<raw, made, ret, stream, initial, putLog, getLog, lastGet,
              cq, cmutex, ctasks, pc, sent, held, recv, failed>>

(***************************************************************************)
(* Bounds of the model.                                                    *)
(***************************************************************************)
MaxLen   == 3   \* longest str drawn as constructor input
MaxItems == 2   \* most elements of a list / tuple / set / dict drawn as input
MaxCalls == 3   \* put() calls of the single-thread run
MaxPuts  == 2   \* put() calls per producer thread
MaxFails == 1   \* failed get() calls counted per consumer thread

(***************************************************************************)
(* Characters and Python's str primitives.                                 *)
(***************************************************************************)
\* The characters input strings are drawn from: a lower-case and an
\* upper-case letter, a punctuation mark, and three kinds of white space.
InputChars == {"a", "B", "!", " ", "\n", "\r"}

\* str.isspace() characters of the alphabet: what str.split() splits on.
Whitespace == {" ", "\n", "\r", "\t"}

\* Line boundaries of str.splitlines() within the alphabet.
LineBreaks == {"\n", "\r"}

LowerCase == <<"a", "b", "c", "d", "e", "f", "g", "h", "i", "j", "k", "l", "m",
               "n", "o", "p", "q", "r", "s", "t", "u", "v", "w", "x", "y", "z">>
UpperCase == <<"A", "B", "C", "D", "E", "F", "G", "H", "I", "J", "K", "L", "M",
               "N", "O", "P", "Q", "R", "S", "T", "U", "V", "W", "X", "Y", "Z">>
Digits    == <<"0", "1", "2", "3", "4", "5", "6", "7", "8", "9">>

Range(f) == {f[j] : j \in DOMAIN f}

\* Characters matched by the regular expression class \w.
WordChars == Range(LowerCase) \cup Range(UpperCase) \cup Range(Digits) \cup {"_"}

Min(S) == CHOOSE m \in S : \A k \in S : m <= k

RECURSIVE Concat(_)
\* "".join(parts)
Concat(parts) ==
    IF parts = <<>> THEN <<>> ELSE Head(parts) \o Concat(Tail(parts))

RECURSIVE join(_, _)
\* sep.join(parts)
join(sep, parts) ==
    IF parts = <<>> THEN <<>>
    ELSE IF Len(parts) = 1 THEN parts[1]
    ELSE parts[1] \o sep \o join(sep, Tail(parts))

RECURSIVE split(_)
\* s.split(): the maximal runs of non-whitespace characters of s, in order.
split(s) ==
    LET nonws == {j \in 1..Len(s) : s[j] \notin Whitespace} IN
    IF nonws = {} THEN <<>>
    ELSE LET i  == Min(nonws)
             ws == {j \in i..Len(s) : s[j] \in Whitespace}
             e  == IF ws = {} THEN Len(s) ELSE Min(ws) - 1
         IN  <<SubSeq(s, i, e)>> \o split(SubSeq(s, e + 1, Len(s)))

RECURSIVE splitlines_dropends(_)
\* Mutant of splitlines: s.splitlines(), the terminators dropped.
splitlines_dropends(s) ==
    LET brk == {j \in 1..Len(s) : s[j] \in LineBreaks} IN
    IF s = <<>> THEN <<>>
    ELSE IF brk = {} THEN <<s>>
    ELSE LET j   == Min(brk)
             eol == IF s[j] = "\r" /\ j < Len(s) /\ s[j + 1] = "\n"
                    THEN j + 1 ELSE j
         IN  <<SubSeq(s, 1, j - 1)>>
                \o splitlines_dropends(SubSeq(s, eol + 1, Len(s)))

RECURSIVE splitlines(_)
\* s.splitlines(keepends=True): each line with its terminator; "\r\n" is one
\* terminator; a trailing line without terminator is kept; "" gives [].
splitlines(s) ==
    LET brk == {j \in 1..Len(s) : s[j] \in LineBreaks} IN
    IF s = <<>> THEN <<>>
    ELSE IF brk = {} THEN <<s>>
    ELSE LET j   == Min(brk)
             eol == IF s[j] = "\r" /\ j < Len(s) /\ s[j + 1] = "\n"
                    THEN j + 1 ELSE j
         IN  <<SubSeq(s, 1, eol)>> \o splitlines(SubSeq(s, eol + 1, Len(s)))

\* str.lower() on one character.
lower_char(c) ==
    IF c \in Range(UpperCase)
    THEN LowerCase[CHOOSE j \in 1..26 : UpperCase[j] = c]
    ELSE c

\* s.lower()
lower(s) == [j \in 1..Len(s) |-> lower_char(s[j])]

\* re.sub(r"[^\w\s]", "", s): drop what is neither a word character nor
\* white space.
re_sub(s) == SelectSeq(s, LAMBDA c : c \in WordChars \/ c \in Whitespace)

(***************************************************************************)
(* Python values handed to the constructors and to put().                  *)
(*   none            None                                                  *)
(*   int, str        the atoms collections are filled with                 *)
(*   list, tuple     items in order                                        *)
(*   set             items in the set's iteration order                    *)
(*   dict            <<key, value>> pairs in insertion order               *)
(*   obj             any other object: what its __repr__ and __str__ do    *)
(*   msg             a Message or Reply object (see MessageMixin_init)     *)
(***************************************************************************)
NoneVal   == [kind |-> "none"]
IntVal(n) == [kind |-> "int", n |-> n]
StrVal(s) == [kind |-> "str", s |-> s]
ListVal(items)  == [kind |-> "list", items |-> items]
TupleVal(items) == [kind |-> "tuple", items |-> items]
SetVal(items)   == [kind |-> "set", items |-> items]
DictVal(pairs)  == [kind |-> "dict", pairs |-> pairs]
\* r and s: [exc |-> "none" or the exception's name, val |-> the text returned]
ObjVal(r, s)    == [kind |-> "obj", repr |-> r, str |-> s]
Returns(text)   == [exc |-> "none", val |-> text]
Raises(exc)     == [exc |-> exc, val |-> <<>>]

\* Literal texts of the source, as character sequences.
NoneText      == <<"N", "o", "n", "e">>
AnonymousText == <<"a", "n", "o", "n", "y", "m", "o", "u", "s">>
MessageText   == <<"M", "e", "s", "s", "a", "g", "e">>
ReplyText     == <<"R", "e", "p", "l", "y">>
AuthorEq      == <<"(", "a", "u", "t", "h", "o", "r", "=">>
CreatedEq     == <<",", " ", "c", "r", "e", "a", "t", "e", "d", "=">>
ContentEq     == <<",", " ", "c", "o", "n", "t", "e", "n", "t", "=">>
EmptySetText  == <<"s", "e", "t", "(", ")">>
CommaSpace    == <<",", " ">>
ColonSpace    == <<":", " ">>

RECURSIVE int_str(_)
\* str(n) for an int n >= 0
int_str(n) ==
    IF n < 10 THEN <<Digits[n + 1]>>
    ELSE int_str(n \div 10) \o <<Digits[(n % 10) + 1]>>

\* The escape repr() writes for one character of a str quoted with q.
escape_char(c, q) ==
    CASE c = "\n" -> <<"\\", "n">>
      [] c = "\r" -> <<"\\", "r">>
      [] c = "\t" -> <<"\\", "t">>
      [] c = "\\" -> <<"\\", "\\">>
      [] c = q    -> <<"\\", q>>
      [] OTHER    -> <<c>>

\* repr(s) for a str s: quoted with ', or with " when s holds a ' and no ".
str_repr(s) ==
    LET q == IF "'" \in Range(s) /\ "\"" \notin Range(s) THEN "\"" ELSE "'"
    IN  <<q>> \o Concat([j \in 1..Len(s) |-> escape_char(s[j], q)]) \o <<q>>

RECURSIVE repr(_)
\* repr(v) for a value whose __repr__ returns.
repr(v) ==
    LET parts == [j \in 1..Len(v.items) |-> repr(v.items[j])]
        pairs == [j \in 1..Len(v.pairs) |->
                    repr(v.pairs[j][1]) \o ColonSpace \o repr(v.pairs[j][2])]
    IN
    CASE v.kind = "none"  -> NoneText
      [] v.kind = "int"   -> int_str(v.n)
      [] v.kind = "str"   -> str_repr(v.s)
      [] v.kind = "list"  -> <<"[">> \o join(CommaSpace, parts) \o <<"]">>
      [] v.kind = "tuple" ->
            IF Len(v.items) = 1 THEN <<"(">> \o parts[1] \o <<",", ")">>
            ELSE <<"(">> \o join(CommaSpace, parts) \o <<")">>
      [] v.kind = "set"   ->
            IF v.items = <<>> THEN EmptySetText
            ELSE <<"{">> \o join(CommaSpace, parts) \o <<"}">>
      [] v.kind = "dict"  -> <<"{">> \o join(CommaSpace, pairs) \o <<"}">>
      [] v.kind = "obj"   -> v.repr.val
      [] v.kind = "msg"   ->
            \* MessageMixin.__repr__
            v.class \o AuthorEq \o v.author \o CreatedEq \o v.created
                \o ContentEq
                \o repr(ListVal([j \in 1..Len(v.content) |-> StrVal(v.content[j])]))
                \o <<")">>

\* Mutant of str: repr(v) taken for str(v).
str_as_repr(v) == repr(v)

\* str(v) for a value whose __str__ returns: only str and objects that
\* define __str__ differ from repr(v).
str(v) ==
    CASE v.kind = "str" -> v.s
      [] v.kind = "obj" -> v.str.val
      [] OTHER          -> repr(v)

\* The exception repr(v) / str(v) raises, or "none".
repr_exc(v) == IF v.kind = "obj" THEN v.repr.exc ELSE "none"
str_exc(v)  == IF v.kind = "obj" THEN v.str.exc ELSE "none"


(***************************************************************************)
(* MessageMixin, Message, Reply.                                           *)
(***************************************************************************)
\* What a raising call leaves instead of a value.
Raised(exc) == [exc |-> exc]

\* Mutant of content: None stored as no token at all.
content_none_empty(val) ==
    CASE val.kind = "none" -> [exc |-> "none", tokens |-> <<>>]
      [] val.kind = "str"  -> [exc |-> "none", tokens |-> split(val.s)]
      [] val.kind \in {"list", "tuple"} ->
            [exc |-> "none",
             tokens |-> [j \in 1..Len(val.items) |-> str(val.items[j])]]
      [] val.kind = "dict" -> [exc |-> "none", tokens |-> split(str(val))]
      [] OTHER ->
            IF repr_exc(val) # "none" THEN Raised("TypeError")
            ELSE [exc |-> "none", tokens |-> split(repr(val))]

\* The content setter: the tokens stored in _content, or the TypeError.
content(val) ==
    CASE val.kind = "none" -> [exc |-> "none", tokens |-> <<NoneText>>]
      [] val.kind = "str"  -> [exc |-> "none", tokens |-> split(val.s)]
      [] val.kind \in {"list", "tuple"} ->
            [exc |-> "none",
             tokens |-> [j \in 1..Len(val.items) |-> str(val.items[j])]]
      [] val.kind = "dict" -> [exc |-> "none", tokens |-> split(str(val))]
      [] OTHER ->
            IF repr_exc(val) # "none" THEN Raised("TypeError")
            ELSE [exc |-> "none", tokens |-> split(repr(val))]

\* self.content_with_format as __init__ leaves it: the lines of str(content),
\* or None when str(content) raised ValueError.
content_with_format(val) ==
    IF str_exc(val) = "ValueError" THEN [isNone |-> TRUE, lines |-> <<>>]
    ELSE [isNone |-> FALSE, lines |-> splitlines(str(val))]

\* The value of keyword argument name, or dflt when it is not passed.
\* kwargs is a set of <<name, value>> pairs with distinct names.
kwarg(kwargs, name, dflt) ==
    IF \E kv \in kwargs : kv[1] = name
    THEN (CHOOSE kv \in kwargs : kv[1] = name)[2]
    ELSE dflt

\* cls(val, **kwargs) at time now, for cls one of Message, Reply: the
\* object constructed, or the exception __init__ lets escape.
MessageMixin_init(cls, val, kwargs, now) ==
    IF content(val).exc # "none" THEN Raised(content(val).exc)
    ELSE IF str_exc(val) \notin {"none", "ValueError"} THEN Raised(str_exc(val))
    ELSE [exc |-> "none",
          obj |-> [kind    |-> "msg",
                   class   |-> cls,
                   author  |-> kwarg(kwargs, "author", AnonymousText),
                   created |-> now,
                   content |-> content(val).tokens,
                   content_with_format |-> content_with_format(val),
                   attrs   |-> {kv \in kwargs : kv[1] # "author"}]]

Message(val, kwargs, now) == MessageMixin_init(MessageText, val, kwargs, now)
Reply(val, kwargs, now)   == MessageMixin_init(ReplyText, val, kwargs, now)

sanitized_content(self, preserve_case) ==
    [j \in 1..Len(self.content) |->
        IF preserve_case THEN re_sub(self.content[j])
        ELSE lower(re_sub(self.content[j]))]

lowered_content(self) ==
    [j \in 1..Len(self.content) |-> lower(self.content[j])]

as_str(self, sanitized) ==
    IF sanitized THEN join(<<" ">>, sanitized_content(self, FALSE))
    ELSE IF ~self.content_with_format.isNone
         THEN Concat(self.content_with_format.lines)
    ELSE join(<<" ">>, self.content)

\* content is always a list, so the first isinstance branch returns it.
as_list(self, sanitized) ==
    IF sanitized THEN sanitized_content(self, FALSE) ELSE self.content


(***************************************************************************)
(* Inputs.                                                                 *)
(***************************************************************************)
SeqsUpTo(S, n) == UNION {[1..k -> S] : k \in 0..n}

\* Sequences without repetition: a set's elements, a dict's keys.
Distinct(q) == \A i, j \in 1..Len(q) : i # j => q[i] # q[j]

Strings == SeqsUpTo(InputChars, MaxLen)

\* What collections are filled with.
Atoms == {NoneVal, IntVal(1), StrVal(<<"a">>), StrVal(<<"a", " ", "B">>)}

\* str(datetime.now()) at two moments.
Timestamps ==
    {<<"2", "0", "2", "1", "-", "0", "3", "-", "0", "4", " ",
       "1", "0", ":", "0", "0", ":", "0", "0", ".", "0", "0", "0", "0", "0", "1">>,
     <<"2", "0", "2", "1", "-", "0", "3", "-", "0", "4", " ",
       "1", "0", ":", "0", "0", ":", "0", "2", ".", "5", "0", "0", "0", "0", "0">>}

\* **kwargs of a constructor call. The names of the attributes __init__
\* sets itself from content (content, content_with_format) are not passed.
Kwargs == {{},
           {<<"author", <<"b", "o", "t">>>>, <<"channel", <<"c", "1">>>>}}

\* Objects of other classes, by what their __repr__ and __str__ do.
Objs ==
    {ObjVal(Returns(<<"<", "a", " ", "B", ">">>), Returns(<<"<", "a", " ", "B", ">">>)),
     ObjVal(Returns(<<"o", "b", "j">>), Returns(<<"a", "\n", "B">>)),
     ObjVal(Returns(<<>>), Returns(<<>>)),
     ObjVal(Returns(<<" ">>), Returns(<<"!">>)),
     ObjVal(Returns(<<"o", "b", "j">>), Raises("ValueError")),
     ObjVal(Returns(<<"o", "b", "j">>), Raises("RuntimeError")),
     ObjVal(Raises("RuntimeError"), Returns(<<"a">>))}

\* Message and Reply objects constructed earlier.
OneTimestamp == CHOOSE ts \in Timestamps : TRUE
Msgs ==
    {Message(StrVal(<<"a", " ", "B">>), {}, OneTimestamp).obj,
     Message(NoneVal, {}, OneTimestamp).obj,
     Reply(StrVal(<<"a", "\n", "!">>), {}, OneTimestamp).obj,
     Reply(ListVal(<<IntVal(1), StrVal(<<"a">>)>>), {}, OneTimestamp).obj}

Contents ==
    {NoneVal, IntVal(12)}
    \cup {StrVal(s) : s \in Strings}
    \cup {ListVal(q) : q \in SeqsUpTo(Atoms, MaxItems)}
    \cup {TupleVal(q) : q \in SeqsUpTo(Atoms, MaxItems)}
    \cup {SetVal(q) : q \in {d \in SeqsUpTo(Atoms, MaxItems) : Distinct(d)}}
    \cup {DictVal(q) : q \in {d \in SeqsUpTo(Atoms \X Atoms, MaxItems) :
                                Distinct([j \in 1..Len(d) |-> d[j][1]])}}
    \cup Objs
    \cup Msgs

(***************************************************************************)
(* SpecMsg: a value is drawn, a Message or Reply is constructed from it,   *)
(* and its methods are called.                                             *)
(***************************************************************************)
Unmade == [exc |-> "unmade"]
NoCall == [op |-> "none"]

MsgIdle == raw = NoneVal /\ made = Unmade /\ ret = NoCall

Construct(cls, kwargs, now) ==
    /\ made = Unmade
    /\ made' = MessageMixin_init(cls, raw, kwargs, now)
    /\ UNCHANGED <<raw, ret>>
    /\ UNCHANGED <<seqVars, concVars>>

CallAsStr(sanitized) ==
    /\ made.exc = "none"
    /\ ret' = [op |-> "as_str", sanitized |-> sanitized,
               val |-> as_str(made.obj, sanitized)]
    /\ UNCHANGED <<raw, made>>
    /\ UNCHANGED <<seqVars, concVars>>

CallAsList(sanitized) ==
    /\ made.exc = "none"
    /\ ret' = [op |-> "as_list", sanitized |-> sanitized,
               val |-> as_list(made.obj, sanitized)]
    /\ UNCHANGED <<raw, made>>
    /\ UNCHANGED <<seqVars, concVars>>

CallSanitizedContent(preserve_case) ==
    /\ made.exc = "none"
    /\ ret' = [op |-> "sanitized_content", preserve_case |-> preserve_case,
               val |-> sanitized_content(made.obj, preserve_case)]
    /\ UNCHANGED <<raw, made>>
    /\ UNCHANGED <<seqVars, concVars>>

CallLoweredContent ==
    /\ made.exc = "none"
    /\ ret' = [op |-> "lowered_content", val |-> lowered_content(made.obj)]
    /\ UNCHANGED <<raw, made>>
    /\ UNCHANGED <<seqVars, concVars>>

CallRepr ==
    /\ made.exc = "none"
    /\ ret' = [op |-> "repr", val |-> repr(made.obj)]
    /\ UNCHANGED <<raw, made>>
    /\ UNCHANGED <<seqVars, concVars>>


(***************************************************************************)
(* ReplyStream(Queue).                                                     *)
(***************************************************************************)
\* Queue.__init__(maxsize=0), reached by super().__init__(): an empty deque
\* and no unfinished tasks.
Queue_init == [queue |-> <<>>, unfinished_tasks |-> 0, maxsize |-> 0]

\* map(func, iterable): the iterator Python 3 builds. func is applied to an
\* element only when the iterator is advanced; building it applies nothing.
map(func, iterable) == [func |-> func, iterable |-> iterable, advanced |-> 0]

\* Queue._put: deque.append
_put(queue, item) == Append(queue, item)

\* Mutant of _get: deque.pop, the tail taken for the head.
_get_pop_right(queue) ==
    [element |-> queue[Len(queue)],
     queue   |-> SubSeq(queue, 1, Len(queue) - 1)]

\* Mutant of _get: the head read as queue[0] and left in place.
_get_peek(queue) == [element |-> Head(queue), queue |-> queue]

\* Queue._get: deque.popleft on a deque that is not empty
_get(queue) == [element |-> Head(queue), queue |-> Tail(queue)]

\* ReplyStream.__init__(collection): the map object is built and dropped
\* without being advanced, so _put runs for no element.
ReplyStream_init(collection) ==
    LET self    == Queue_init
        dropped == map("_put", collection)
    IN  IF collection # NoneVal /\ dropped.advanced > 0
        THEN [self EXCEPT !.queue = collection.items]
        ELSE self

IsReply(v) == v.kind = "msg" /\ v.class = ReplyText

\* Mutant of get_return: Reply(element) whatever the element is.
get_return_always_wraps(element, now) == Reply(element, {}, now)

\* The last line of get(): the element itself when it is a Reply, or the
\* outcome of Reply(element) constructed at time now.
get_return(element, now) ==
    IF ~IsReply(element) THEN Reply(element, {}, now)
    ELSE [exc |-> "none", obj |-> element]

\* timeout=None, or timeout=secs
NoTimeout     == [isNone |-> TRUE, secs |-> 0]
Timeout(secs) == [isNone |-> FALSE, secs |-> secs]
Timeouts      == {NoTimeout, Timeout(2)}

\* Payloads handed to put(): values a Reply can be constructed from.
Payloads ==
    {NoneVal,
     StrVal(<<"a", " ", "B">>),
     Reply(StrVal(<<"a", "\n", "!">>), {}, OneTimestamp).obj,
     Message(StrVal(<<"a", " ", "B">>), {}, OneTimestamp).obj}

\* The collection argument of the constructor: None, an empty list, or a
\* list of two different payloads.
Collections ==
    {NoneVal, ListVal(<<>>), ListVal(<<StrVal(<<"a", " ", "B">>), NoneVal>>)}

NoGet == [op |-> "none"]

(***************************************************************************)
(* Spec: one thread constructs a ReplyStream and calls put() and get().    *)
(***************************************************************************)
SeqIdle ==
    /\ initial = NoneVal
    /\ stream = Queue_init
    /\ putLog = <<>>
    /\ getLog = <<>>
    /\ lastGet = NoGet

\* Queue.put(item) with maxsize = 0: under the mutex, _put, count the task,
\* notify not_empty; it never waits and never fails.
put(item) ==
    /\ Len(putLog) < MaxCalls
    /\ stream' = [stream EXCEPT !.queue = _put(@, item),
                                !.unfinished_tasks = @ + 1]
    /\ putLog' = Append(putLog, item)
    /\ UNCHANGED <<initial, getLog, lastGet>>
    /\ UNCHANGED <<msgVars, concVars>>

\* ReplyStream.get(block, timeout): block and timeout are not read. On an
\* empty deque popleft raises IndexError at once; otherwise the head is
\* removed and returned as a Reply.
get(block, timeout, now) ==
    /\ UNCHANGED <<msgVars, concVars>>
    /\ IF stream.queue = <<>>
       THEN /\ lastGet' = [op |-> "get", block |-> block, timeout |-> timeout,
                           sawEmpty |-> TRUE, waited |-> 0,
                           outcome |-> "IndexError"]
            /\ UNCHANGED <<stream, initial, putLog, getLog>>
       ELSE LET popped == _get(stream.queue)
                result == get_return(popped.element, now)
            IN  /\ stream' = [stream EXCEPT !.queue = popped.queue]
                /\ lastGet' = [op |-> "get", block |-> block,
                               timeout |-> timeout,
                               sawEmpty |-> FALSE, waited |-> 0,
                               outcome |-> IF result.exc = "none"
                                           THEN "returned" ELSE result.exc,
                               element |-> popped.element,
                               value |-> result]
                /\ getLog' = IF result.exc = "none"
                             THEN Append(getLog, result.obj) ELSE getLog
                /\ UNCHANGED <<initial, putLog>>

(***************************************************************************)
(* SpecConc: producer threads call put() and consumer threads call get()   *)
(* on one ReplyStream. put() runs under Queue.mutex; the overridden get()  *)
(* takes no lock. deque.append and deque.popleft are each one atomic step  *)
(* (CPython runs them without releasing the interpreter's lock).           *)
(***************************************************************************)
Producers == {1, 2}
Consumers == {3, 4}
NoThread  == 0
Nothing   == [kind |-> "nothing"]

\* The k-th payload of producer p: the tuple (p, k).
Payload(p, k) == TupleVal(<<IntVal(p), IntVal(k)>>)

ConcIdle ==
    /\ cq = <<>>
    /\ cmutex = NoThread
    /\ ctasks = 0
    /\ pc = [th \in Producers \cup Consumers |-> "idle"]
    /\ sent = [p \in Producers |-> 0]
    /\ held = [c \in Consumers |-> Nothing]
    /\ recv = [c \in Consumers |-> <<>>]
    /\ failed = [c \in Consumers |-> 0]

\* put(): "with self.not_full:" acquires the mutex
PutAcquire(p) ==
    /\ pc[p] = "idle"
    /\ sent[p] < MaxPuts
    /\ cmutex = NoThread
    /\ cmutex' = p
    /\ pc' = [pc EXCEPT ![p] = "locked"]
    /\ UNCHANGED <<cq, ctasks, sent, held, recv, failed>>
    /\ UNCHANGED <<msgVars, seqVars>>

\* put(): self._put(item); self.unfinished_tasks += 1; not_empty.notify()
\* (no thread ever waits on not_empty: get() does not wait)
PutAppend(p) ==
    /\ pc[p] = "locked"
    /\ cq' = _put(cq, Payload(p, sent[p] + 1))
    /\ sent' = [sent EXCEPT ![p] = @ + 1]
    /\ ctasks' = ctasks + 1
    /\ pc' = [pc EXCEPT ![p] = "appended"]
    /\ UNCHANGED <<cmutex, held, recv, failed>>
    /\ UNCHANGED <<msgVars, seqVars>>

\* put(): leaving the with block releases the mutex
PutRelease(p) ==
    /\ pc[p] = "appended"
    /\ cmutex' = NoThread
    /\ pc' = [pc EXCEPT ![p] = "idle"]
    /\ UNCHANGED <<cq, ctasks, sent, held, recv, failed>>
    /\ UNCHANGED <<msgVars, seqVars>>

\* get(): element = self._get() on a deque that holds something
GetPop(c) ==
    /\ pc[c] = "idle"
    /\ cq # <<>>
    /\ held' = [held EXCEPT ![c] = _get(cq).element]
    /\ cq' = _get(cq).queue
    /\ pc' = [pc EXCEPT ![c] = "popped"]
    /\ UNCHANGED <<cmutex, ctasks, sent, recv, failed>>
    /\ UNCHANGED <<msgVars, seqVars>>

\* get(): self._get() on an empty deque raises IndexError
GetRaise(c) ==
    /\ pc[c] = "idle"
    /\ cq = <<>>
    /\ failed[c] < MaxFails
    /\ failed' = [failed EXCEPT ![c] = @ + 1]
    /\ UNCHANGED <<cq, cmutex, ctasks, pc, sent, held, recv>>
    /\ UNCHANGED <<msgVars, seqVars>>

\* get(): return Reply(element) if not isinstance(element, Reply) else element
\* No step of the threads reads a Reply's time of construction: one value
\* stands for what datetime.now() returns.
GetReturn(c, now) ==
    /\ pc[c] = "popped"
    /\ recv' = [recv EXCEPT ![c] = Append(@, get_return(held[c], now).obj)]
    /\ held' = [held EXCEPT ![c] = Nothing]
    /\ pc' = [pc EXCEPT ![c] = "idle"]
    /\ UNCHANGED <<cq, cmutex, ctasks, sent, failed>>
    /\ UNCHANGED <<msgVars, seqVars>>

(***************************************************************************)
(* The specifications.                                                     *)
(***************************************************************************)
\* One thread: the stream is constructed from a drawn collection.
Init ==
    /\ initial \in Collections
    /\ stream = ReplyStream_init(initial)
    /\ putLog = <<>>
    /\ getLog = <<>>
    /\ lastGet = NoGet
    /\ MsgIdle
    /\ ConcIdle

Next ==
    \/ \E item \in Payloads : put(item)
    \/ \E block \in BOOLEAN, timeout \in Timeouts, now \in Timestamps :
          get(block, timeout, now)

Spec == Init /\ [][Next]_vars

\* Messages: the constructor's argument is drawn.
InitMsg ==
    /\ raw \in Contents
    /\ made = Unmade
    /\ ret = NoCall
    /\ SeqIdle
    /\ ConcIdle

NextMsg ==
    \/ \E cls \in {MessageText, ReplyText}, kwargs \in Kwargs, now \in Timestamps :
          Construct(cls, kwargs, now)
    \/ \E sanitized \in BOOLEAN : CallAsStr(sanitized)
    \/ \E sanitized \in BOOLEAN : CallAsList(sanitized)
    \/ \E preserve_case \in BOOLEAN : CallSanitizedContent(preserve_case)
    \/ CallLoweredContent
    \/ CallRepr

SpecMsg == InitMsg /\ [][NextMsg]_vars

\* Threads: the stream is constructed empty and shared.
InitConc == ConcIdle /\ SeqIdle /\ MsgIdle

NextConc ==
    \/ \E p \in Producers : PutAcquire(p)
    \/ \E p \in Producers : PutAppend(p)
    \/ \E p \in Producers : PutRelease(p)
    \/ \E c \in Consumers : GetPop(c)
    \/ \E c \in Consumers : GetRaise(c)
    \/ \E c \in Consumers, now \in {OneTimestamp} : GetReturn(c, now)

SpecConc == InitConc /\ [][NextConc]_vars


(***************************************************************************)
(* Properties of ReplyStream used by one thread (Spec).                    *)
(***************************************************************************)
\* r is what get() returns for payload p: p itself when p is a Reply,
\* otherwise a Reply built from p.
Carries(r, p) ==
    IF IsReply(p) THEN r = p
    ELSE /\ IsReply(r)
         /\ r.content = content(p).tokens
         /\ r.content_with_format = content_with_format(p)

\* C1: ReplyBuffer is strictly FIFO for one producer: the i-th value
\* returned by get() is the i-th payload handed to put(), wrapped as a
\* Reply, and what is pending is exactly the rest of the payloads, in
\* insertion order: nothing is dropped, reordered or duplicated.
C1_FIFO ==
    /\ Len(getLog) <= Len(putLog)
    /\ \A i \in 1..Len(getLog) : Carries(getLog[i], putLog[i])
    /\ stream.queue = SubSeq(putLog, Len(getLog) + 1, Len(putLog))

\* Three different payloads were put and three get() calls returned them.
C1_Witness ==
    /\ Len(putLog) = 3
    /\ Distinct(putLog)
    /\ Len(getLog) = 3
    /\ stream.queue = <<>>
    /\ putLog[1] = NoneVal
    /\ getLog[1].content = <<NoneText>>
    /\ getLog[3] = putLog[3]

\* C2: right after ReplyStream(initial) with an initial collection of k
\* elements, the buffer holds exactly those k payloads in iteration order.
C2_InitialEnqueued ==
    (initial # NoneVal /\ putLog = <<>> /\ lastGet = NoGet)
        => stream.queue = initial.items

\* C4: get(block=True) on an empty buffer suspends; with no put arriving
\* (one thread) it can end only by the timeout elapsing, failing with Empty
\* and not before the bound; with no timeout it does not end.
C4_BlockingGetSuspends ==
    (lastGet.op = "get" /\ lastGet.block /\ lastGet.sawEmpty)
        => /\ lastGet.outcome = "Empty"
           /\ ~lastGet.timeout.isNone
           /\ lastGet.waited >= lastGet.timeout.secs

\* C5: get(block=False) on an empty buffer fails at once, without
\* suspending, and the failure is Empty and no other error.
C5_NonBlockingGetRaisesEmpty ==
    (lastGet.op = "get" /\ ~lastGet.block /\ lastGet.sawEmpty)
        => /\ lastGet.outcome = "Empty"
           /\ lastGet.waited = 0

\* C6: every successful get() returns a Reply coerced from the head: the
\* same Reply when the head is a Reply, otherwise a new Reply constructed
\* from the raw payload, whose tokens are the payload's normalisation
\* (["None"] for None, the whitespace split of a str, the whitespace split
\* of the repr of a Message).
C6_GetCoerces ==
    (lastGet.op = "get" /\ lastGet.outcome = "returned") =>
        LET p == lastGet.element
            r == lastGet.value.obj
        IN  /\ IsReply(r)
            /\ getLog # <<>> /\ getLog[Len(getLog)] = r
            /\ IsReply(p) => r = p
            /\ ~IsReply(p) =>
                 /\ r # p
                 /\ p.kind = "none" => r.content = <<NoneText>>
                 /\ p.kind = "str"  => r.content = split(p.s)
                 /\ p.kind = "msg"  => r.content = split(repr(p))

\* A Reply was returned as it was put, None was returned as Reply(None),
\* and the last get() wrapped a Message object.
C6_Witness ==
    /\ lastGet.op = "get" /\ lastGet.outcome = "returned"
    /\ lastGet.element.kind = "msg" /\ lastGet.element.class = MessageText
    /\ lastGet.value.obj.class = ReplyText
    /\ Len(lastGet.value.obj.content) = 5
    /\ \E i \in 1..Len(getLog) : IsReply(putLog[i]) /\ getLog[i] = putLog[i]
    /\ \E i \in 1..Len(getLog) :
          putLog[i] = NoneVal /\ getLog[i].content = <<NoneText>>

(***************************************************************************)
(* Properties of ReplyStream shared by threads (SpecConc).                 *)
(***************************************************************************)
AllTags == Producers \X (1..(MaxPuts + 1))

\* The tag <<producer, number>> carried by a payload, and by the Reply
\* built from it, whose tokens are the two numbers' texts.
PayloadTag(v) == <<v.items[1].n, v.items[2].n>>
HasTag(r) ==
    \E tg \in AllTags : r.content = <<int_str(tg[1]), int_str(tg[2])>>
ReplyTag(r) ==
    CHOOSE tg \in AllTags : r.content = <<int_str(tg[1]), int_str(tg[2])>>

BagOfSeq(q) == [x \in Range(q) |-> Cardinality({i \in DOMAIN q : q[i] = x})]

RECURSIVE SumBags(_, _)
\* The sum of the bags f[c], c in S.
SumBags(f, S) ==
    IF S = {} THEN EmptyBag
    ELSE LET c == CHOOSE d \in S : TRUE
         IN  f[c] (+) SumBags(f, S \ {c})

RecvTags(c) == [i \in 1..Len(recv[c]) |-> ReplyTag(recv[c][i])]

\* Payloads returned by get() calls, over all consumers.
RetrievedBag == SumBags([c \in Consumers |-> BagOfSeq(RecvTags(c))], Consumers)

\* Payloads appended by put() calls: each tag once.
EnqueuedBag == SetToBag({tg \in AllTags : tg[2] <= sent[tg[1]]})

\* Payloads in the deque, or popped by a get() that has not returned yet.
PendingBag ==
    BagOfSeq([i \in 1..Len(cq) |-> PayloadTag(cq[i])])
        (+) SetToBag({PayloadTag(held[c]) : c \in {d \in Consumers : held[d] # Nothing}})

Drained == cq = <<>> /\ \A c \in Consumers : held[c] = Nothing

\* C3: under any interleaving of the producers' put() and the consumers'
\* get(), no payload is lost and none is returned twice: what was retrieved
\* together with what is still pending is, as a multiset, what was
\* enqueued, so once the buffer is drained the multiset retrieved equals
\* the multiset enqueued; and each consumer receives the payloads of one
\* producer in that producer's insertion order.
C3_NoLossNoDuplicate ==
    /\ \A c \in Consumers : \A i \in 1..Len(recv[c]) :
          IsReply(recv[c][i]) /\ HasTag(recv[c][i])
    /\ RetrievedBag (+) PendingBag = EnqueuedBag
    /\ Drained => RetrievedBag = EnqueuedBag
    /\ \A c \in Consumers : \A i, j \in 1..Len(recv[c]) :
          (i < j /\ RecvTags(c)[i][1] = RecvTags(c)[j][1])
              => RecvTags(c)[i][2] < RecvTags(c)[j][2]

\* Both producers have put both payloads, both consumers have received
\* two, a get() has failed on the empty buffer, and the buffer is drained.
C3_Witness ==
    /\ \A p \in Producers : sent[p] = 2 /\ pc[p] = "idle"
    /\ \A c \in Consumers : Len(recv[c]) = 2
    /\ \E c \in Consumers : failed[c] > 0
    /\ \E c \in Consumers : RecvTags(c)[1][1] # RecvTags(c)[2][1]
    /\ Drained
    /\ ctasks = 4

(***************************************************************************)
(* Properties of messages (SpecMsg).                                       *)
(***************************************************************************)
\* Every character a text of the model can hold.
Chars ==
    InputChars \cup Whitespace \cup WordChars \cup
    {"(", ")", "[", "]", "{", "}", "<", ">", ",", ":", ";", ".", "-", "=",
     "'", "\"", "\\", "!", "?"}

Constructed == made.exc = "none"

\* The input is not empty: a str with a character, a collection or a
\* mapping with an element, or an object.
NonEmptyInput(v) ==
    CASE v.kind = "none" -> FALSE
      [] v.kind = "str"  -> v.s # <<>>
      [] v.kind \in {"list", "tuple", "set"} -> v.items # <<>>
      [] v.kind = "dict" -> v.pairs # <<>>
      [] OTHER -> TRUE

\* The input has text to tokenise: a str or another object's repr with a
\* character that is not white space, a list or tuple with an element;
\* None, an int, a set, a dict and a Message always have.
HasText(v) ==
    CASE v.kind = "str" -> \E j \in 1..Len(v.s) : v.s[j] \notin Whitespace
      [] v.kind \in {"list", "tuple"} -> v.items # <<>>
      [] v.kind = "obj"  ->
            \E j \in 1..Len(v.repr.val) : v.repr.val[j] \notin Whitespace
      [] OTHER -> TRUE

\* C7 as stated: the tokens of a constructed message are a sequence of
\* strings, and not empty for any non-empty input.
C7_NonEmptyInputHasTokens ==
    Constructed =>
        /\ made.obj.content \in Seq(Seq(Chars))
        /\ NonEmptyInput(raw) => made.obj.content # <<>>

\* C7 as amended: the tokens of a constructed message are a sequence of
\* strings for every input shape, and not empty whenever the input has
\* text that is not white space (HasText); a str of white space only
\* gives no token.
C7_TokensAreStrings ==
    Constructed =>
        /\ made.obj.content \in Seq(Seq(Chars))
        /\ HasText(raw) => made.obj.content # <<>>
        /\ \A j \in 1..Len(made.obj.content) :
              raw.kind \notin {"list", "tuple"}
                  => /\ made.obj.content[j] # <<>>
                     /\ \A k \in 1..Len(made.obj.content[j]) :
                           made.obj.content[j][k] \notin Whitespace
        /\ (raw.kind = "str" /\ raw.s # <<>> /\ ~HasText(raw))
              => made.obj.content = <<>>

\* A message constructed from None holds the one token "None".
C7_Witness ==
    /\ Constructed
    /\ raw = NoneVal
    /\ made.obj.content = <<NoneText>>

\* C8: content_with_format is set only for a message constructed from a
\* str; constructed from anything else it is unset, and as_str() returns
\* the tokens joined with single spaces.
C8_FormatOnlyForStrings ==
    (Constructed /\ raw.kind # "str") =>
        /\ made.obj.content_with_format.isNone
        /\ (ret.op = "as_str" /\ ~ret.sanitized)
              => ret.val = join(<<" ">>, made.obj.content)

ElementText(e) ==
    CASE e.kind = "none" -> NoneText
      [] e.kind = "int"  -> int_str(e.n)
      [] e.kind = "str"  -> e.s

Elementwise(v) ==
    /\ Len(made.obj.content) = Len(v.items)
    /\ \A j \in 1..Len(v.items) : made.obj.content[j] = ElementText(v.items[j])

\* C10 as stated: for a list, a tuple or a set the tokens are the string
\* forms of the elements, one token per element, in order.
C10_CollectionsElementwise ==
    (Constructed /\ raw.kind \in {"list", "tuple", "set"}) => Elementwise(raw)

\* C10 as amended: for a list or a tuple the tokens are the string forms
\* of the elements, one token per element, in order; a set is rendered as
\* a whole by its repr, which is then split at white space.
C10_ListTupleElementwise ==
    Constructed =>
        /\ raw.kind \in {"list", "tuple"} => Elementwise(raw)
        /\ raw.kind = "set" =>
              made.obj.content =
                  split(IF raw.items = <<>> THEN EmptySetText
                        ELSE <<"{">>
                             \o join(CommaSpace,
                                     [j \in 1..Len(raw.items) |-> repr(raw.items[j])])
                             \o <<"}">>)

\* A message constructed from the list [1, "a B"] holds the two tokens
\* "1" and "a B".
C10_Witness ==
    /\ Constructed
    /\ raw = ListVal(<<IntVal(1), StrVal(<<"a", " ", "B">>)>>)
    /\ made.obj.content = <<<<"1">>, <<"a", " ", "B">>>>


====
